---- MODULE Spec2Model ----
(***************************************************************************)
(* librsync-go, signature.go: Signature (build a signature of a basis      *)
(* stream and serialize it) and ReadSignature (decode a serialized         *)
(* signature).  The io.Reader and io.Writer arguments are the environment: *)
(* every Read and Write call is one step whose outcome is chosen among the *)
(* outcomes the io.Reader / io.Writer contracts allow.                     *)
(***************************************************************************)
EXTENDS Integers, Sequences, FiniteSets, TLC

\* ------------------------------------------------------------------ bounds
MaxLen == 3
MaxBlockLen == 2
MaxExtraIter == 1
MaxFail == 1

\* ------------------------------------------------------- program constants
BLAKE2_SUM_LENGTH == 32
MD4_SUM_LENGTH == 16
BLAKE2_SIG_MAGIC == 1920139575
MD4_SIG_MAGIC == 1920139574

\* ------------------------------------------------------------- input sets
Bytes == {0, 1}
\* the two signature tags and a MagicNumber that is neither
SigTypes == {BLAKE2_SIG_MAGIC, MD4_SIG_MAGIC, 0}
StrongLens == {0, 1, 2, MD4_SUM_LENGTH, MD4_SUM_LENGTH + 1,
               BLAKE2_SUM_LENGTH, BLAKE2_SUM_LENGTH + 1}
CodecStrongLens == {0, 1, 3}
Runs == {1, 2}
\* a *SignatureType: nil, or a pointer to an index
Nil == << >>
Ptr(x) == << x >>
NoErr == "nil"
EOF == "EOF"

SeqsUpTo(S, n) == UNION {[1..k -> S] : k \in 0..n}
Min(a, b) == IF a < b THEN a ELSE b
Take(s, n) == SubSeq(s, 1, n)

\* ------------------------------------------------------- encoding/binary
\* binary.Write(w, binary.BigEndian, x) for a uint32 x: four bytes, high first.
BE32(x) ==
    << (x \div 16777216) % 256, (x \div 65536) % 256, (x \div 256) % 256, x % 256 >>

\* binary.Read's conversion of four big-endian bytes to a uint32.
DE32(b) == ((b[1] * 256 + b[2]) * 256 + b[3]) * 256 + b[4]

\* ------------------------------------------------------------- checksums
\* WeakChecksum (rollsum): s1 = sum of (byte + 31), s2 = sum of the running s1,
\* both mod 2^16, digest = s2 << 16 | s1.
RECURSIVE RollS1(_)
RollS1(data) ==
    IF data = << >> THEN 0
    ELSE (RollS1(Take(data, Len(data) - 1)) + data[Len(data)] + 31) % 65536

RECURSIVE RollS2(_)
RollS2(data) ==
    IF data = << >> THEN 0
    ELSE (RollS2(Take(data, Len(data) - 1)) + RollS1(data)) % 65536

WeakChecksum(data) == RollS2(data) * 65536 + RollS1(data)

\* An abstract digest state: the hash libraries are deterministic functions of
\* the block; Mix stands for the compression of the block's bytes.
RECURSIVE Mix(_)
Mix(data) ==
    IF data = << >> THEN 7
    ELSE (Mix(Take(data, Len(data) - 1)) * 31 + data[Len(data)] + 1) % 65521

Blake2bSum256(data) == [j \in 1..BLAKE2_SUM_LENGTH |-> (Mix(data) * 7 + j * 11) % 256]
Md4Sum(data) == [j \in 1..MD4_SUM_LENGTH |-> (Mix(data) * 5 + j * 3 + 1) % 256]

\* CalcStrongSum: the digest truncated to strongLen; nil for an unknown sigType.
CalcStrongSum(data, t, sl) ==
    IF t = BLAKE2_SIG_MAGIC THEN Take(Blake2bSum256(data), sl)
    ELSE IF t = MD4_SIG_MAGIC THEN Take(Md4Sum(data), sl)
    ELSE << >>

\* ------------------------------------------------------------------ maps
EmptyMap == [k \in {} |-> 0]
\* first-write-wins: a key already present keeps its value
MapPutIfAbsent(m, k, v) == [x \in (DOMAIN m) \cup {k} |-> IF x \in DOMAIN m THEN m[x] ELSE v]
MapPut(m, k, v) == [x \in (DOMAIN m) \cup {k} |-> IF x = k THEN v ELSE m[x]]

\* ----------------------------------------------------------------- state
VARIABLES
    input, blockLen, strongLen, sigType,   \* the arguments of Signature
    fails,                                 \* I/O failures the environment may still inject
    pc, pos, iters, data, out, written, nwrites, ioFailed, ret, blocks, result,
    \* ReadSignature: the reader's stream and the function's locals
    stream, dpc, dpos, magic, dblockLen, dstrongLen, weakSum, strongSigs, weak2block,
    dweaks, dresult

params == << input, blockLen, strongLen, sigType >>
bvars == << pc, pos, iters, data, out, written, nwrites, ioFailed, ret, blocks, result >>
dvars == << stream, dpc, dpos, magic, dblockLen, dstrongLen, weakSum, strongSigs,
           weak2block, dweaks, dresult >>
vars == << params, fails, bvars, dvars >>

NoResult == [sig |-> Nil, err |-> "pending"]
EmptyRet == [sigType |-> 0, blockLen |-> 0, strongLen |-> 0,
             strongSigs |-> << >>, weak2block |-> EmptyMap]

InitBuild ==
    /\ pc = [i \in Runs |-> "validate"]
    /\ pos = [i \in Runs |-> 0]
    /\ iters = [i \in Runs |-> 0]
    /\ data = [i \in Runs |-> << >>]
    /\ out = [i \in Runs |-> << >>]
    /\ written = [i \in Runs |-> << >>]
    /\ nwrites = [i \in Runs |-> 0]
    /\ ioFailed = [i \in Runs |-> FALSE]
    /\ ret = [i \in Runs |-> EmptyRet]
    /\ blocks = [i \in Runs |-> << >>]
    /\ result = [i \in Runs |-> NoResult]

InitParams(lens) ==
    /\ input \in SeqsUpTo(Bytes, MaxLen)
    /\ blockLen \in 0..MaxBlockLen
    /\ strongLen \in lens
    /\ sigType \in SigTypes

\* ------------------------------------------------------------- Signature
\* the BLAKE2 limit applied to every sigType
MaxStrongLenOfBlake2(t) == BLAKE2_SUM_LENGTH
MaxStrongLen(t) == IF t = BLAKE2_SIG_MAGIC THEN BLAKE2_SUM_LENGTH ELSE MD4_SUM_LENGTH

Return(i, sig, err) ==
    /\ pc' = [pc EXCEPT ![i] = "done"]
    /\ result' = [result EXCEPT ![i] = [sig |-> sig, err |-> err]]

\* lines 40-53
Validate(i) ==
    /\ pc[i] = "validate"
    /\ IF sigType \notin {BLAKE2_SIG_MAGIC, MD4_SIG_MAGIC}
       THEN Return(i, Nil, "invalid sigType")
       ELSE IF strongLen > MaxStrongLen(sigType)
       THEN Return(i, Nil, "invalid strongLen")
       ELSE pc' = [pc EXCEPT ![i] = "hdrSigType"] /\ UNCHANGED result
    /\ UNCHANGED << params, fails, pos, iters, data, out, written, nwrites, ioFailed,
                    ret, blocks >>
    /\ UNCHANGED dvars

\* output.Write(p): the sink takes all of p, or fails having taken k < Len(p) bytes.
ShortCounts(n) == IF n = 0 THEN {0} ELSE {0, n - 1}

SinkWrite(i, p, ok, k) ==
    /\ written' = [written EXCEPT ![i] = @ \o p]
    /\ nwrites' = [nwrites EXCEPT ![i] = @ + 1]
    /\ IF ok
       THEN /\ out' = [out EXCEPT ![i] = @ \o p]
            /\ UNCHANGED << fails, ioFailed >>
       ELSE /\ fails > 0
            /\ fails' = fails - 1
            /\ out' = [out EXCEPT ![i] = @ \o Take(p, k)]
            /\ ioFailed' = [ioFailed EXCEPT ![i] = TRUE]

HeaderPc == << "hdrSigType", "hdrBlockLen", "hdrStrongLen", "read" >>
\* strongLen written before blockLen
HeaderFieldSwapped(f) == IF f = 1 THEN sigType ELSE IF f = 2 THEN strongLen ELSE blockLen
HeaderField(f) == IF f = 1 THEN sigType ELSE IF f = 2 THEN blockLen ELSE strongLen

\* lines 55-74: the three binary.Write calls of the header, then ret is set up
WriteHeader(i) ==
    \E f \in 1..3, ok \in BOOLEAN, k \in ShortCounts(4) :
        /\ pc[i] = HeaderPc[f]
        /\ ok => k = 0
        /\ SinkWrite(i, BE32(HeaderField(f)), ok, k)
        /\ IF ok
           THEN pc' = [pc EXCEPT ![i] = HeaderPc[f + 1]] /\ UNCHANGED result
           ELSE Return(i, Nil, "write error")
        /\ ret' = IF ok /\ f = 3
                  THEN [ret EXCEPT ![i] = [EmptyRet EXCEPT !.sigType = sigType,
                                                           !.strongLen = strongLen,
                                                           !.blockLen = blockLen]]
                  ELSE ret
        /\ UNCHANGED << params, pos, iters, data, blocks, dvars >>

\* r.Read(p) for a buffer of len bytes with rem bytes left in the stream: the
\* (n, err) pairs an io.Reader returns.  It may return fewer bytes than asked,
\* and the last bytes either together with EOF or with EOF on the next call; a
\* Read into an empty buffer returns 0 bytes, with nil or (at the end) with EOF.
ReadOutcomes(len, rem) ==
    IF len = 0 THEN {<< 0, NoErr >>} \cup (IF rem = 0 THEN {<< 0, EOF >>} ELSE {})
    ELSE IF rem = 0 THEN {<< 0, EOF >>}
    ELSE {<< n, NoErr >> : n \in 1..Min(len, rem)}
         \cup (IF rem <= len THEN {<< rem, EOF >>} ELSE {})

\* lines 77-83
ReadBlock(i) ==
    /\ pc[i] = "read"
    /\ iters[i] < Len(input) + 1 + MaxExtraIter
    /\ iters' = [iters EXCEPT ![i] = @ + 1]
    /\ \/ \E o \in ReadOutcomes(blockLen, Len(input) - pos[i]) :
            /\ pos' = [pos EXCEPT ![i] = @ + o[1]]
            /\ IF o[2] = EOF
               THEN Return(i, Ptr(ret[i]), NoErr) /\ UNCHANGED data
               ELSE /\ data' = [data EXCEPT ![i] = SubSeq(input, pos[i] + 1, pos[i] + o[1])]
                    /\ pc' = [pc EXCEPT ![i] = "weak"]
                    /\ UNCHANGED result
            /\ UNCHANGED << fails, ioFailed >>
       \/ /\ fails > 0
          /\ fails' = fails - 1
          /\ ioFailed' = [ioFailed EXCEPT ![i] = TRUE]
          /\ Return(i, Nil, "read error")
          /\ UNCHANGED << pos, data >>
    /\ UNCHANGED << params, out, written, nwrites, ret, blocks, dvars >>

\* lines 85-89
WriteWeak(i) ==
    \E ok \in BOOLEAN, k \in ShortCounts(4) :
        /\ pc[i] = "weak"
        /\ ok => k = 0
        /\ SinkWrite(i, BE32(WeakChecksum(data[i])), ok, k)
        /\ IF ok
           THEN pc' = [pc EXCEPT ![i] = "strong"] /\ UNCHANGED result
           ELSE Return(i, Nil, "write error")
        /\ UNCHANGED << params, pos, iters, data, ret, blocks, dvars >>

\* lines 91-95: the result of output.Write(strong) is dropped
WriteStrong(i) ==
    /\ pc[i] = "strong"
    /\ LET weak == WeakChecksum(data[i])
           strong == CalcStrongSum(data[i], sigType, strongLen)
       IN \E ok \in BOOLEAN, k \in ShortCounts(Len(strong)) :
           /\ ok => k = 0
           /\ SinkWrite(i, strong, ok, k)
           /\ ret' = [ret EXCEPT ![i].weak2block = MapPut(@, weak, Len(ret[i].strongSigs)),
                                 ![i].strongSigs = Append(@, strong)]
           /\ blocks' = [blocks EXCEPT ![i] = Append(@, data[i])]
           /\ pc' = [pc EXCEPT ![i] = "read"]
           /\ UNCHANGED << params, pos, iters, data, result, dvars >>

SignatureStep(i) ==
    \/ Validate(i)
    \/ WriteHeader(i)
    \/ ReadBlock(i)
    \/ WriteWeak(i)
    \/ WriteStrong(i)

\* --------------------------------------------------------- ReadSignature
InitDecode ==
    /\ stream = << >>
    /\ dpc = "idle"
    /\ dpos = 0
    /\ magic = 0
    /\ dblockLen = 0
    /\ dstrongLen = 0
    /\ weakSum = 0
    /\ strongSigs = << >>
    /\ weak2block = EmptyMap
    /\ dweaks = << >>
    /\ dresult = NoResult

\* A caller hands ReadSignature a reader over the bytes a successful Signature
\* left in its output, or over a prefix of them (a truncated copy).
StartRead ==
    /\ dpc = "idle"
    /\ pc[1] = "done"
    /\ result[1].err = NoErr
    /\ \E c \in 0..Len(out[1]) : stream' = Take(out[1], c)
    /\ dpc' = "magic"
    /\ UNCHANGED << params, fails, bvars, dpos, magic, dblockLen, dstrongLen, weakSum,
                    strongSigs, weak2block, dweaks, dresult >>

DReturn(sig, err) ==
    /\ dpc' = "done"
    /\ dresult' = [sig |-> sig, err |-> err]

\* binary.Read of a uint32 is io.ReadFull of four bytes: EOF when no byte is
\* left, ErrUnexpectedEOF when one to three are, whatever the reader's splits.
ReadFull4(s, p) ==
    LET rem == Len(s) - p
    IN IF rem >= 4 THEN [n |-> 4, err |-> NoErr, val |-> DE32(SubSeq(s, p + 1, p + 4))]
       ELSE IF rem = 0 THEN [n |-> 0, err |-> EOF, val |-> 0]
       ELSE [n |-> rem, err |-> "unexpected EOF", val |-> 0]

DHeaderPc == << "magic", "blockLen", "strongLen", "weak" >>

\* lines 103-122
ReadHeader ==
    \E f \in 1..3 :
        /\ dpc = DHeaderPc[f]
        /\ LET r == ReadFull4(stream, dpos)
           IN /\ dpos' = dpos + r.n
              /\ IF r.err # NoErr
                 THEN DReturn(Nil, r.err) /\ UNCHANGED << magic, dblockLen, dstrongLen >>
                 ELSE /\ dpc' = DHeaderPc[f + 1]
                      /\ magic' = IF f = 1 THEN r.val ELSE magic
                      /\ dblockLen' = IF f = 2 THEN r.val ELSE dblockLen
                      /\ dstrongLen' = IF f = 3 THEN r.val ELSE dstrongLen
                      /\ UNCHANGED dresult
        /\ UNCHANGED << params, fails, bvars, stream, weakSum, strongSigs, weak2block, dweaks >>

ReturnedIndex ==
    [sigType |-> magic, blockLen |-> dblockLen, strongLen |-> dstrongLen,
     strongSigs |-> strongSigs, weak2block |-> weak2block]

\* lines 125-131 and 146-152
ReadWeak ==
    /\ dpc = "weak"
    /\ LET r == ReadFull4(stream, dpos)
       IN /\ dpos' = dpos + r.n
          /\ IF r.err = EOF
             THEN DReturn(Ptr(ReturnedIndex), NoErr) /\ UNCHANGED weakSum
             ELSE IF r.err # NoErr
             THEN DReturn(Nil, r.err) /\ UNCHANGED weakSum
             ELSE /\ weakSum' = r.val
                  /\ dpc' = "strong"
                  /\ UNCHANGED dresult
    /\ UNCHANGED << params, fails, bvars, stream, magic, dblockLen, dstrongLen,
                    strongSigs, weak2block, dweaks >>

\* lines 133-143: one r.Read call for the strong checksum
ReadStrong ==
    /\ dpc = "strong"
    /\ \E o \in ReadOutcomes(dstrongLen, Len(stream) - dpos) :
          /\ dpos' = dpos + o[1]
          /\ IF o[2] # NoErr
             THEN DReturn(Nil, o[2]) /\ UNCHANGED << strongSigs, weak2block, dweaks >>
             ELSE IF o[1] # dstrongLen
             THEN DReturn(Nil, "short strong hash")
                  /\ UNCHANGED << strongSigs, weak2block, dweaks >>
             ELSE /\ weak2block' = MapPut(weak2block, weakSum, Len(strongSigs))
                  /\ strongSigs' = Append(strongSigs, SubSeq(stream, dpos + 1, dpos + o[1]))
                  /\ dweaks' = Append(dweaks, weakSum)
                  /\ dpc' = "weak"
                  /\ UNCHANGED dresult
    /\ UNCHANGED << params, fails, bvars, stream, magic, dblockLen, dstrongLen, weakSum >>

ReadSignatureStep ==
    \/ ReadHeader
    \/ ReadWeak
    \/ ReadStrong

\* ---------------------------------------------------------- specifications
\* One Signature call; the reader and the sink may fail.
Init ==
    /\ InitParams(StrongLens)
    /\ fails = MaxFail
    /\ InitBuild
    /\ InitDecode

Next == SignatureStep(1)

Spec == Init /\ [][Next]_vars

\* One Signature call on a reader and a sink that do not fail, then ReadSignature
\* on its output or on a prefix of it.
InitCodec ==
    /\ InitParams(CodecStrongLens)
    /\ fails = 0
    /\ InitBuild
    /\ InitDecode

NextCodec ==
    \/ SignatureStep(1)
    \/ StartRead
    \/ ReadSignatureStep

SpecCodec == InitCodec /\ [][NextCodec]_vars

\* Two Signature calls over the same input and parameters, one after the other,
\* each with its own reader over the same bytes.
NextTwo ==
    \E i \in Runs :
        /\ i = 2 => pc[1] = "done"
        /\ SignatureStep(i)

SpecTwo == InitCodec /\ [][NextTwo]_vars

\* ------------------------------------------------------------ properties
Succeeded(i) == pc[i] = "done" /\ result[i].err = NoErr
Header == BE32(sigType) \o BE32(blockLen) \o BE32(strongLen)
NativeLen == IF sigType = BLAKE2_SIG_MAGIC THEN 32 ELSE 16
Recognized == sigType \in {BLAKE2_SIG_MAGIC, MD4_SIG_MAGIC}
RecordLen == 4 + strongLen
CeilDiv(a, b) == (a + b - 1) \div b

RECURSIVE Flatten(_)
Flatten(ss) == IF ss = << >> THEN << >> ELSE Head(ss) \o Flatten(Tail(ss))

\* the last (0-based) position of w in the sequence of weak checksums ws
LastIndexOf(ws, w) == CHOOSE j \in 0..(Len(ws) - 1) :
    ws[j + 1] = w /\ \A k \in (j + 1)..(Len(ws) - 1) : ws[k + 1] # w
LastWriteWins(ws, m) ==
    /\ DOMAIN m = {ws[j] : j \in 1..Len(ws)}
    /\ \A w \in DOMAIN m : m[w] = LastIndexOf(ws, w)
BuildWeaks == [j \in 1..Len(blocks[1]) |-> WeakChecksum(blocks[1][j])]

\* C1: ReadSignature on all the bytes a successful Signature (blockLen >= 1, and
\* strongLen >= 1 as the data model has it) wrote succeeds and returns an index equal to the one Signature returned.
C1_RoundTrip ==
    (dpc = "done" /\ stream = out[1] /\ blockLen >= 1 /\ strongLen >= 1)
        => (dresult.err = NoErr /\ dresult.sig = result[1].sig)

\* C2: the bytes Signature writes are the 12-byte header (sigType, blockLen,
\* strongLen), complete before the first read of the input, then one record per
\* block in stream order: 4 bytes of weak checksum, then strongLen bytes of strong
\* checksum equal to strongSigs[j] of the returned index; 12 + N*(4+strongLen)
\* bytes in all, and they are the sink's content when no write failed.
C2_WireLayout ==
    /\ iters[1] > 0 => (Len(written[1]) >= 12 /\ Take(written[1], 12) = Header)
    /\ Succeeded(1) =>
         LET sig == result[1].sig[1]
             n == Len(blocks[1])
         IN /\ Len(sig.strongSigs) = n
            /\ \A j \in 1..n :
                 /\ Len(sig.strongSigs[j]) = strongLen
                 /\ sig.strongSigs[j] =
                        Take(IF sigType = BLAKE2_SIG_MAGIC THEN Blake2bSum256(blocks[1][j])
                             ELSE Md4Sum(blocks[1][j]), strongLen)
            /\ written[1] = Header \o Flatten([j \in 1..n |->
                                 BE32(WeakChecksum(blocks[1][j])) \o sig.strongSigs[j]])
            /\ Len(written[1]) = 12 + n * RecordLen
            /\ ~ioFailed[1] => out[1] = written[1]

C2_Witness ==
    Succeeded(1) /\ ~ioFailed[1] /\ Len(blocks[1]) >= 2 /\ strongLen >= 1
    /\ blocks[1][1] # blocks[1][2]

\* C3: for blockLen B >= 1 and input length L, a successful Signature has
\* ceil(L/B) blocks, all of B bytes except the last, which has L mod B bytes
\* (B when L mod B = 0), however the reader splits the input across Read calls.
C3_BlockPartition ==
    (Succeeded(1) /\ blockLen >= 1) =>
        LET n == Len(blocks[1])
            L == Len(input)
        IN /\ n = CeilDiv(L, blockLen)
           /\ \A j \in 1..(n - 1) : Len(blocks[1][j]) = blockLen
           /\ n > 0 => Len(blocks[1][n]) =
                           (IF L % blockLen = 0 THEN blockLen ELSE L % blockLen)

\* C4: once a read of the input or a write to the output has failed, Signature has
\* stopped (no further read or write) and returns a nil index with an error.
C4_ErrorPropagation ==
    (ioFailed[1] /\ blockLen >= 1 /\ strongLen >= 1) =>
        (pc[1] = "done" /\ result[1].sig = Nil /\ result[1].err # NoErr)

\* C5: with an unrecognized sigType, or strongLen above the native digest size
\* (32 for BLAKE2, 16 for MD4), Signature returns an error and a nil index, has
\* written nothing and read nothing; otherwise the validation passes.
C5_ValidationFailFast ==
    pc[1] # "validate" =>
        IF ~Recognized \/ strongLen > NativeLen
        THEN /\ pc[1] = "done"
             /\ result[1].sig = Nil
             /\ result[1].err \in {"invalid sigType", "invalid strongLen"}
             /\ written[1] = << >> /\ out[1] = << >> /\ nwrites[1] = 0
             /\ iters[1] = 0 /\ pos[1] = 0
        ELSE /\ result[1].err \notin {"invalid sigType", "invalid strongLen"}
             /\ nwrites[1] = 0 => pc[1] = "hdrSigType"

C5_Witness ==
    pc[1] = "done" /\ sigType = MD4_SIG_MAGIC /\ strongLen = MD4_SUM_LENGTH + 1

\* C6: ReadSignature on a stream cut inside a record returns an error and a nil
\* index; on a stream ending at a record boundary (after the header or a complete
\* record) it succeeds with exactly the records before the cut, however the
\* reader delivers the bytes.
C6_TruncationDetection ==
    (dpc = "done" /\ Len(stream) >= 12 /\ blockLen >= 1 /\ strongLen >= 1) =>
        LET k == (Len(stream) - 12) \div RecordLen
        IN IF (Len(stream) - 12) % RecordLen = 0
           THEN /\ dresult.err = NoErr
                /\ dresult.sig # Nil
                /\ dresult.sig[1].strongSigs = Take(result[1].sig[1].strongSigs, k)
           ELSE dresult.sig = Nil /\ dresult.err # NoErr

\* C7: in the index Signature returns and in the index ReadSignature returns,
\* weak2block maps exactly the weak checksums of the blocks (records), each to the
\* largest block index carrying it, and every block's strong checksum is still
\* at its position in strongSigs.
C7_LastWriteWins ==
    /\ (pc[1] = "done" /\ result[1].sig # Nil) =>
          /\ LastWriteWins(BuildWeaks, result[1].sig[1].weak2block)
          /\ Len(result[1].sig[1].strongSigs) = Len(blocks[1])
          /\ \A j \in 1..Len(blocks[1]) :
                result[1].sig[1].strongSigs[j] = CalcStrongSum(blocks[1][j], sigType, strongLen)
    /\ (dpc = "done" /\ dresult.sig # Nil) =>
          /\ LastWriteWins(dweaks, dresult.sig[1].weak2block)
          /\ Len(dresult.sig[1].strongSigs) = Len(dweaks)
          /\ \A j \in 1..Len(dweaks) :
                LET at == 12 + (j - 1) * (4 + dstrongLen)
                IN /\ dweaks[j] = DE32(SubSeq(stream, at + 1, at + 4))
                   /\ dresult.sig[1].strongSigs[j] = SubSeq(stream, at + 5, at + 4 + dstrongLen)

C7_Witness ==
    /\ dpc = "done" /\ dresult.sig # Nil
    /\ Len(dweaks) = 3
    /\ dweaks[1] = dweaks[2] /\ dweaks[3] # dweaks[1]
    /\ dresult.sig[1].weak2block[dweaks[1]] = 1
    /\ result[1].sig[1].weak2block = dresult.sig[1].weak2block

\* C8: two Signature calls over the same input and parameters write the same
\* bytes and return equal indexes, however each reader splits the input.
C8_Determinism ==
    (Succeeded(1) /\ Succeeded(2) /\ blockLen >= 1) =>
        (out[1] = out[2] /\ result[1] = result[2])

\* C9: Signature never emits a record nor a strongSigs entry for a block of zero
\* bytes; empty input gives the 12-byte header alone, no strongSigs and no
\* weak2block entry, and ReadSignature of the header alone succeeds, empty.
C9_NoEmptyBlock ==
    /\ \A j \in 1..Len(blocks[1]) : blocks[1][j] # << >>
    /\ (Succeeded(1) /\ input = << >>) =>
          /\ out[1] = Header
          /\ result[1].sig[1].strongSigs = << >>
          /\ result[1].sig[1].weak2block = EmptyMap
    /\ (dpc = "done" /\ Len(stream) = 12) =>
          /\ dresult.err = NoErr
          /\ dresult.sig[1].strongSigs = << >>
          /\ dresult.sig[1].weak2block = EmptyMap

\* C10: with a sink that accepts every write and parameters that pass the
\* validation, the read loop runs at most Len(input) + 1 times.
C10_LoopBound ==
    ~ioFailed[1] => iters[1] <= Len(input) + 1

====
